---- MODULE Spec2Model ----
(***************************************************************************)
(* Model of the KU acquisition-and-merge pipeline:                         *)
(*   main.py                 download_and_process_kus (the driver)         *)
(*   entities/ku_downloader  KuDownloader (the fetcher)                    *)
(*   entities/ku_parser      KUParser (extract, join-and-accumulate,       *)
(*                           cleanup)                                      *)
(* The file system under download_path, the geodatabase at gdb_path and    *)
(* the arcpy environment are the state; every method the driver calls is   *)
(* an action (loops are one action per iteration).                         *)
(***************************************************************************)
EXTENDS Integers, Sequences, FiniteSets, TLC

\* ------------------------------------------------------------------ bounds
\* number of cadastral units the registry serves
NumUnits == 3
\* at most this many of the served archives are not complete, sound archives
MaxFaulty == 1
\* features a unit's spatial join yields
FeatPerUnit == 2

UnitNames == <<"100", "101", "102", "103", "104">>
Units == {UnitNames[i] : i \in 1..NumUnits}

Range(s) == {s[i] : i \in 1..Len(s)}

IsPrefix(s, t) == Len(s) <= Len(t) /\ SubSeq(t, 1, Len(s)) = s

\* ------------------------------------------------------------ the manifest
\* extract_zip_files: the list of file names to extract
to_extract ==
    << "PARCELY_KN_DEF.cpg", "PARCELY_KN_DEF.dbf", "PARCELY_KN_DEF.prj",
       "PARCELY_KN_DEF.shp", "PARCELY_KN_DEF.shx",
       "PARCELY_KN_P.cpg", "PARCELY_KN_P.dbf", "PARCELY_KN_P.prj",
       "PARCELY_KN_P.shp", "PARCELY_KN_P.shx" >>

\* ---------------------------------------------------------------- archives
\* A zip archive: whether ZipFile() can open it and its infolist().  An entry
\* is its filename split at '/', and whether reading its data fails.
ZipEntry(path, isBad) == [filename |-> path, bad |-> isBad]

\* the entries of a complete archive of unit u, in the order an archiver
\* writes them: the folder, the two layers, another layer of the registry
EntryNames ==
    << "", "PARCELY_KN_DEF.dbf", "PARCELY_KN_DEF.prj", "PARCELY_KN_DEF.shp",
       "PARCELY_KN_DEF.shx", "PARCELY_KN_DEF.cpg", "BUDOVY_P.shp",
       "PARCELY_KN_P.dbf", "PARCELY_KN_P.prj", "PARCELY_KN_P.shp",
       "PARCELY_KN_P.shx", "PARCELY_KN_P.cpg" >>

InfoList(u, absent, badNames) ==
    LET all == [i \in 1..Len(EntryNames) |->
                   ZipEntry(<<u, EntryNames[i]>>, EntryNames[i] \in badNames)]
    IN  SelectSeq(all, LAMBDA e : e.filename[2] \notin absent)

\* the folder an archive made from an export directory keeps above the
\* unit's folder
NestedFolder == "export"

\* the entries of a complete archive of unit u packed one folder deeper
NestedInfoList(u) ==
    [i \in 1..Len(EntryNames) |->
        ZipEntry(<<NestedFolder, u, EntryNames[i]>>, FALSE)]

\* the archive the registry serves for unit u, by what is wrong with it
Archive(u, kind) ==
    CASE kind = "sound" ->
            [openable |-> TRUE, infolist |-> InfoList(u, {}, {})]
      \* a companion file is not in the archive
      [] kind = "incomplete" ->
            [openable |-> TRUE, infolist |-> InfoList(u, {"PARCELY_KN_DEF.shx"}, {})]
      \* truncated: the central directory cannot be read
      [] kind = "truncated" ->
            [openable |-> FALSE, infolist |-> << >>]
      \* the data of the first selected entry is damaged
      [] kind = "damaged_first" ->
            [openable |-> TRUE, infolist |-> InfoList(u, {}, {"PARCELY_KN_DEF.dbf"})]
      \* the data of the last selected entry is damaged
      [] kind = "damaged_last" ->
            [openable |-> TRUE, infolist |-> InfoList(u, {}, {"PARCELY_KN_P.cpg"})]
      \* complete and readable, the entries under export/<unit>/
      [] kind = "nested" ->
            [openable |-> TRUE, infolist |-> NestedInfoList(u)]

ArchiveKinds ==
    {"sound", "incomplete", "truncated", "damaged_first", "damaged_last",
     "nested"}

Catalogs ==
    { c \in [Units -> ArchiveKinds] :
        Cardinality({u \in Units : c[u] # "sound"}) <= MaxFaulty }

\* -------------------------------------------------------- the file system
\* The tree under unpacked_path: a function from paths (relative to
\* unpacked_path, <<>> is unpacked/ itself) to what is there.
NoTree == << >>
DirNode == [kind |-> "dir", src |-> "", good |-> TRUE]
FileNode(u, isGood) == [kind |-> "file", src |-> u, good |-> isGood]

Parents(path) == {SubSeq(path, 1, k) : k \in 0..(Len(path) - 1)}

\* Path.mkdir(exist_ok=True)
MkDir(tree, path) ==
    [p \in DOMAIN tree \cup {path} |-> IF p \in DOMAIN tree THEN tree[p] ELSE DirNode]

\* create the upper directories of path (os.makedirs)
MakeDirs(tree, path) ==
    [p \in DOMAIN tree \cup Parents(path) |->
        IF p \in DOMAIN tree THEN tree[p] ELSE DirNode]

WriteFile(tree, path, node) ==
    LET t == MakeDirs(tree, path)
    IN  [p \in DOMAIN t \cup {path} |-> IF p = path THEN node ELSE t[p]]

\* ------------------------------------------------------ Selective Extractor
\* x.filename.split('/')[-1]
BaseName(filename) == filename[Len(filename)]

\* a filter that lets every entry through
FilesToExtractUnfiltered(infolist, names) == infolist

\* the filter of extract_zip_file: the entries whose base name is listed
FilesToExtract(infolist, names) ==
    SelectSeq(infolist, LAMBDA x : BaseName(x.filename) \in Range(names))

\* an extraction that moves a file that is there aside, to <name>~
ExtractAllKeepsOld(members, tree, u, writesBad) ==
    LET isFile(i) == BaseName(members[i].filename) # ""
        broken == {i \in 1..Len(members) : isFile(i) /\ members[i].bad}
        stop == IF broken = {} THEN Len(members) + 1
                ELSE CHOOSE i \in broken : \A j \in broken : i <= j
        done == 1..(stop - 1)
        files == {members[i].filename : i \in {j \in done : isFile(j)}}
        damaged == IF broken # {} /\ writesBad
                   THEN {members[stop].filename} ELSE {}
        dirs == UNION {Parents(members[i].filename) :
                          i \in 1..(IF broken = {} THEN stop - 1 ELSE stop)}
        olds == (files \cup damaged) \cap DOMAIN tree
    IN  [raised |-> broken # {},
         tree |-> [p \in {[q EXCEPT ![Len(q)] = @ \o "~"] : q \in olds} |->
                      FileNode(u, TRUE)]
                  @@ [p \in damaged |-> FileNode(u, FALSE)]
                  @@ [p \in files |-> FileNode(u, TRUE)]
                  @@ tree
                  @@ [p \in dirs |-> DirNode]]

\* ZipFile.extractall: the members one after the other, each under
\* unpacked_path at its own file name; the first member that cannot be read
\* raises and ends the extraction.  Its upper directories exist by then, and
\* the file itself holds damaged data when the error came while copying
\* (writesBad) and is absent when it came while opening the member.
ExtractAll(members, tree, u, writesBad) ==
    LET isFile(i) == BaseName(members[i].filename) # ""
        broken == {i \in 1..Len(members) : isFile(i) /\ members[i].bad}
        \* the member the extraction stops at (past the end: none)
        stop == IF broken = {} THEN Len(members) + 1
                ELSE CHOOSE i \in broken : \A j \in broken : i <= j
        done == 1..(stop - 1)
        files == {members[i].filename : i \in {j \in done : isFile(j)}}
        damaged == IF broken # {} /\ writesBad
                   THEN {members[stop].filename} ELSE {}
        dirs == UNION {Parents(members[i].filename) :
                          i \in 1..(IF broken = {} THEN stop - 1 ELSE stop)}
    IN  [raised |-> broken # {},
         tree |-> [p \in damaged |-> FileNode(u, FALSE)]
                  @@ [p \in files |-> FileNode(u, TRUE)]
                  @@ tree
                  @@ [p \in dirs |-> DirNode]]

\* extract_zip_file(zip_file, to_extract) on the archive of unit u
extract_zip_file(archive, u, names, tree, writesBad) ==
    IF ~archive.openable THEN [raised |-> TRUE, tree |-> tree]
    ELSE ExtractAll(FilesToExtract(archive.infolist, names), tree, u, writesBad)

\* self.unpacked_path.glob('*'): the names directly under unpacked/
ListUnpacked(tree) == {p[1] : p \in {q \in DOMAIN tree : Len(q) = 1}}

\* ------------------------------------------------- Join-and-Accumulate Engine
\* the files of a shapefile the spatial engine cannot do without
Companions(shp) ==
    IF shp = "PARCELY_KN_P.shp"
    THEN {"PARCELY_KN_P.shp", "PARCELY_KN_P.shx", "PARCELY_KN_P.dbf"}
    ELSE {"PARCELY_KN_DEF.shp", "PARCELY_KN_DEF.shx", "PARCELY_KN_DEF.dbf"}

LayerReadable(tree, ku_number, shp) ==
    \A f \in Companions(shp) :
        /\ <<ku_number, f>> \in DOMAIN tree
        /\ tree[<<ku_number, f>>].kind = "file"
        /\ tree[<<ku_number, f>>].good

\* whether SpatialJoin(target_fc, join_fc, ...) can run on the folder
Joinable(tree, ku_number) ==
    /\ LayerReadable(tree, ku_number, "PARCELY_KN_P.shp")
    /\ LayerReadable(tree, ku_number, "PARCELY_KN_DEF.shp")

\* the joined features: one per parcel of the target layer, from the data
\* that PARCELY_KN_P.shp in this folder holds
SpatialJoin(tree, ku_number) ==
    [i \in 1..FeatPerUnit |->
        [ku |-> tree[<<ku_number, "PARCELY_KN_P.shp">>].src, n |-> i]]

NoTransient == [exists |-> FALSE, feats |-> << >>]

\* a join that leaves an output that is there as it is
SpatialJoinOutputKeepsOld(old, feats) ==
    IF old.exists THEN old ELSE [exists |-> TRUE, feats |-> feats]

\* 'in_memory/spatial_join' once SpatialJoin has returned: the joined
\* features; an output that was there is replaced (overwriteOutput)
SpatialJoinOutput(old, feats) == [exists |-> TRUE, feats |-> feats]

\* a fold that replaces the rows of the target
Append_managementOverwrites(store, feats) == feats

\* arcpy.Append_management(inputs, target): the rows are added at the end
Append_management(store, feats) == store \o feats

\* arcpy.management.CopyFeatures(in, out): out is created with the rows of in
CopyFeatures(feats) == feats

\* a dataset name is resolved against arcpy.env.workspace
ResolvesToGdb(workspace) == workspace = "gdb"

\* arcpy.Exists('KU')
Exists(workspace, storeThere) == ResolvesToGdb(workspace) /\ storeThere

\* arcpy.Delete_management('KU'): whether the store of the geodatabase is
\* still there afterwards
Delete_management(workspace, storeThere) ==
    IF ResolvesToGdb(workspace) THEN FALSE ELSE storeThere

\* the arcpy environment of a fresh interpreter
FreshEnv ==
    [workspace |-> "none", XYDomain |-> "", outputCoordinateSystem |-> "",
     overwriteOutput |-> FALSE, parallelProcessingFactor |-> ""]

\* sr = arcpy.SpatialReference(...)
sr == "S-JTSK_Krovak_East_North"

\* upload_data_to_gdb: the environment after the workspace setup.  sr is a
\* local variable that no statement assigns to the environment.
SetUpEnv ==
    [workspace |-> "gdb", XYDomain |-> "-916406 -1234597 -419902 -738093",
     outputCoordinateSystem |-> FreshEnv.outputCoordinateSystem,
     overwriteOutput |-> TRUE, parallelProcessingFactor |-> "100%"]

\* the rows a store left by an earlier run holds
StaleStore == [i \in 1..FeatPerUnit |-> [ku |-> "old", n |-> i]]

\* ------------------------------------------------------------------- state
VARIABLES
    pc,         \* where download_and_process_kus is: the call to make next,
                \* a loop position, "done" or "failed"
    hardError,  \* what the driver's except clause reported ("none": nothing)
    called,     \* the methods the driver has called, in order
    returned,   \* the methods that have returned
    catalog,    \* what archive the registry serves for each unit
    staging,    \* the units whose <unit>.zip is in download_path
    tree,       \* the tree under download_path/unpacked
    todo,       \* the names the running loop has still to visit
    gdbExists,  \* gdb_path exists
    kuExists,   \* the geodatabase holds a feature class KU
    ku,         \* the rows of KU
    transient,  \* in_memory/spatial_join
    env,        \* arcpy.env
    warnings,   \* the warnings logged
    submitted,  \* the names process_single_ku was called with
    succeeded,  \* the names for which process_single_ku returned, in order
    everStaged, \* the archives ever placed in download_path
    everWritten,\* the paths ever created under unpacked/
    caller      \* what a caller of KUParser's methods keeps: the ku_list it
                \* passed, and of its first extract_zip_files how each
                \* archive failed and what unpacked/ held afterwards

vars == << pc, hardError, called, returned, catalog, staging, tree, todo,
           gdbExists, kuExists, ku, transient, env, warnings, submitted,
           succeeded, everStaged, everWritten, caller >>

fsVars == << staging, tree, everStaged, everWritten >>
gdbVars == << gdbExists, kuExists, ku, transient, env >>
unitVars == << submitted, succeeded >>

Warning(what, item) == [what |-> what, item |-> item]

\* ku_list=None
NoList == [given |-> FALSE, list |-> {}]

\* main.py: remove_zip_files() without a list, extract_zip_files() once
NoCaller ==
    [ku_list |-> NoList, rerun |-> FALSE, outcome |-> << >>, tree |-> NoTree]

\* ------------------------------------------------------------------ driver
\* a driver that removes the archives before the upload
DriverCallsCleanupFirst ==
    << "KuDownloader", "download_all_kus", "KUParser", "extract_zip_files",
       "remove_zip_files", "upload_data_to_gdb", "remove_unpacked_files" >>

\* download_and_process_kus: the statements of the try block, in order
DriverCalls ==
    << "KuDownloader", "download_all_kus", "KUParser", "extract_zip_files",
       "upload_data_to_gdb", "remove_zip_files", "remove_unpacked_files" >>

\* what follows the call of method: the next statement, or print('Done')
NextCall(method) ==
    LET i == CHOOSE j \in 1..Len(DriverCalls) : DriverCalls[j] = method
    IN  IF i = Len(DriverCalls) THEN "done" ELSE DriverCalls[i + 1]

\* method returns: the driver goes on to its next statement
Return(method) ==
    /\ pc' = NextCall(method)
    /\ returned' = returned \cup {method}
    /\ called' = IF NextCall(method) = "done" THEN called
                 ELSE Append(called, NextCall(method))
    /\ hardError' = hardError

\* no handler: the exception leaves download_and_process_kus
HaltPropagates(method, cause) ==
    /\ pc' = "raised"
    /\ hardError' = cause
    /\ UNCHANGED << called, returned >>

\* a handler that reports the error and goes on with the next statement
HaltLogsAndGoesOn(method, cause) ==
    /\ pc' = NextCall(method)
    /\ hardError' = cause
    /\ called' = Append(called, NextCall(method))
    /\ returned' = returned

\* a handler that goes on to the cleanup (try ... finally)
HaltAndCleanUp(method, cause) ==
    /\ pc' = "remove_zip_files"
    /\ hardError' = cause
    /\ called' = Append(called, "remove_zip_files")
    /\ returned' = returned

\* an exception leaves method: except Exception as e: print(...)
Halt(method, cause) ==
    /\ pc' = "failed"
    /\ hardError' = cause
    /\ UNCHANGED << called, returned >>

\* the method stays in its loop
Stay(at) ==
    /\ pc' = at
    /\ UNCHANGED << hardError, called, returned >>

Init ==
    /\ pc = DriverCalls[1]
    /\ hardError = "none"
    /\ called = << DriverCalls[1] >>
    /\ returned = {}
    /\ catalog \in Catalogs
    /\ staging = {}
    /\ tree = NoTree
    /\ todo = {}
    /\ \E g \in {"absent", "empty", "stale"} :
          /\ gdbExists = (g # "absent")
          /\ kuExists = (g = "stale")
          /\ ku = IF g = "stale" THEN StaleStore ELSE << >>
    /\ transient = NoTransient
    /\ env = FreshEnv
    /\ warnings = {}
    /\ submitted = {}
    /\ succeeded = << >>
    /\ everStaged = {}
    /\ everWritten = {}
    /\ caller = NoCaller

\* ----------------------------------------------------------------- Fetcher
\* kd = KuDownloader(): reads config.yaml and starts the browser
KuDownloader ==
    /\ pc = "KuDownloader"
    /\ \/ Return("KuDownloader")
       \/ Halt("KuDownloader", "config")
    /\ UNCHANGED << catalog, caller, todo, warnings >>
    /\ UNCHANGED << fsVars, gdbVars, unitVars >>

\* self.download_list = config['download_list']: the units the configuration
\* names, here all the registry serves but the last.  No statement of
\* KuDownloader reads the attribute.
download_list == {UnitNames[i] : i \in 1..(NumUnits - 1)}

\* kd.download_all_kus(): clicks every link of the page, in page order; an
\* error is raised again, wrapped
download_all_kus ==
    /\ pc = "download_all_kus"
    /\ \/ /\ staging' = staging \cup Units
          /\ Return("download_all_kus")
       \/ /\ \E k \in 0..(NumUnits - 1) :
                staging' = staging \cup {UnitNames[i] : i \in 1..k}
          /\ Halt("download_all_kus", "download")
    /\ everStaged' = everStaged \cup staging'
    /\ UNCHANGED << catalog, caller, tree, everWritten, todo, warnings >>
    /\ UNCHANGED << gdbVars, unitVars >>

\* glob() yields the names of a directory in the order the file system lists
\* them, the same on every listing of the same directory: here the order of
\* the names.  The units are interchangeable, so every place a unit can have
\* in a listing is the place of some unit of some catalog.
ListingOrder == UnitNames \o << NestedFolder >>

Position(name) == CHOOSE i \in 1..Len(ListingOrder) : ListingOrder[i] = name

First(names) == CHOOSE n \in names : \A m \in names : Position(n) <= Position(m)

\* a loop has visited an item: it goes on with the rest, or the method returns
LoopNext(method, at, rest) ==
    IF rest = {} THEN Return(method) ELSE Stay(at)

\* --------------------------------------------------- extract_zip_files
\* kp = KUParser(): reads config.yaml
KUParser ==
    /\ pc = "KUParser"
    /\ \/ Return("KUParser")
       \/ Halt("KUParser", "config")
    /\ UNCHANGED << catalog, caller, todo, warnings >>
    /\ UNCHANGED << fsVars, gdbVars, unitVars >>

\* extract_zip_files up to its loop: unpacked/ is made, the archives listed
extract_zip_files ==
    /\ pc = "extract_zip_files"
    /\ tree' = MkDir(tree, << >>)
    /\ everWritten' = everWritten \cup DOMAIN tree'
    /\ todo' = staging
    /\ LoopNext("extract_zip_files", "extract_loop", todo')
    /\ UNCHANGED << catalog, caller, staging, everStaged, warnings >>
    /\ UNCHANGED << gdbVars, unitVars >>

\* a handler that logs and raises again
ExtractExceptReraises(zip_file, rest) ==
    /\ warnings' = warnings \cup {Warning("extract", zip_file)}
    /\ Halt("extract_zip_files", "item")

\* except Exception as e: logging.warning(...) of the extraction loop
ExtractExcept(zip_file, rest) ==
    /\ warnings' = warnings \cup {Warning("extract", zip_file)}
    /\ LoopNext("extract_zip_files", "extract_loop", rest)

\* the body of the loop of extract_zip_files for zip_file; writesBad: how
\* an unreadable member fails
ExtractTurn(zip_file, writesBad) ==
    /\ \E r \in {extract_zip_file(Archive(zip_file, catalog[zip_file]),
                                   zip_file, to_extract, tree, writesBad)} :
          /\ tree' = r.tree
          /\ todo' = todo \ {zip_file}
          /\ IF r.raised
             THEN ExtractExcept(zip_file, todo')
             ELSE /\ warnings' = warnings
                  /\ LoopNext("extract_zip_files", "extract_loop", todo')
    /\ everWritten' = everWritten \cup DOMAIN tree'
    /\ UNCHANGED << catalog, staging, everStaged >>
    /\ UNCHANGED << gdbVars, unitVars >>

\* one turn of the loop of extract_zip_files
ExtractOne ==
    /\ pc = "extract_loop"
    /\ \E zip_file \in {First(todo)}, writesBad \in BOOLEAN :
          ExtractTurn(zip_file, writesBad)
    /\ UNCHANGED caller

\* --------------------------------------------------- upload_data_to_gdb
\* upload_data_to_gdb up to its loop: the geodatabase is created, or 'KU' is
\* deleted in the workspace of that moment; then the environment is set and
\* unpacked/ is listed.  An error of the engine leaves the method.
upload_data_to_gdb ==
    /\ pc = "upload_data_to_gdb"
    /\ \/ /\ gdbExists' = TRUE
          /\ kuExists' = IF gdbExists
                         THEN Delete_management(env.workspace, kuExists)
                         ELSE kuExists
          /\ ku' = IF kuExists' THEN ku ELSE << >>
          /\ env' = SetUpEnv
          /\ todo' = ListUnpacked(tree)
          /\ LoopNext("upload_data_to_gdb", "upload_loop", todo')
       \/ /\ Halt("upload_data_to_gdb", "setup")
          /\ UNCHANGED << gdbExists, kuExists, ku, env, todo >>
    /\ UNCHANGED << catalog, caller, transient, warnings >>
    /\ UNCHANGED << fsVars, unitVars >>

\* except Exception as e: logging.warning(...) of the upload loop
ProcessExcept(ku_name, rest) ==
    /\ warnings' = warnings \cup {Warning("process", ku_name)}
    /\ LoopNext("upload_data_to_gdb", "upload_loop", rest)

\* one turn of the loop of upload_data_to_gdb: process_single_ku(ku.name)
ProcessSingleKu ==
    /\ pc = "upload_loop"
    /\ \E ku_name \in {First(todo)} :
          /\ todo' = todo \ {ku_name}
          /\ submitted' = submitted \cup {ku_name}
          /\ \/ \* SpatialJoin raises
                /\ transient' \in {transient, NoTransient}
                /\ UNCHANGED << kuExists, ku, succeeded >>
                /\ ProcessExcept(ku_name, todo')
             \/ \* SpatialJoin writes in_memory/spatial_join, the fold raises
                /\ Joinable(tree, ku_name)
                /\ transient.exists => env.overwriteOutput
                /\ transient' = SpatialJoinOutput(transient,
                                                  SpatialJoin(tree, ku_name))
                /\ UNCHANGED << kuExists, ku, succeeded >>
                /\ ProcessExcept(ku_name, todo')
             \/ \* SpatialJoin, Append or CopyFeatures, Delete of the transient
                /\ Joinable(tree, ku_name)
                /\ transient.exists => env.overwriteOutput
                /\ \E out \in {SpatialJoinOutput(transient,
                                                   SpatialJoin(tree, ku_name))} :
                      ku' = IF Exists(env.workspace, kuExists)
                            THEN Append_management(ku, out.feats)
                            ELSE CopyFeatures(out.feats)
                /\ kuExists' = TRUE
                /\ transient' = NoTransient
                /\ succeeded' = Append(succeeded, ku_name)
                /\ warnings' = warnings
                /\ LoopNext("upload_data_to_gdb", "upload_loop", todo')
    /\ UNCHANGED << catalog, caller, gdbExists, env >>
    /\ UNCHANGED fsVars

\* ------------------------------------------------------------ Cleanup Stage
\* no listing of download_path when ku_list is None
ZipsToRemoveNoDefault(ku_list, present) == ku_list.list

\* remove_zip_files: the archives the loop visits
ZipsToRemove(ku_list, present) ==
    IF ~ku_list.given THEN present ELSE ku_list.list

\* a loop without the try: the first unlink that raises ends it
RemoveZipsStopsAtFailure(ku_list) ==
    \E failing \in
          {f \in SUBSET ZipsToRemove(ku_list, staging) :
              ZipsToRemove(ku_list, staging) \ staging \subseteq f} :
        /\ staging' = staging \
              {z \in ZipsToRemove(ku_list, staging) :
                  \A f \in failing : Position(z) < Position(f)}
        /\ warnings' = warnings \cup
              (IF failing = {} THEN {} ELSE {Warning("unlink", First(failing))})

\* remove_zip_files(ku_list): every archive of the list is unlinked; an
\* unlink that raises (failing: at least the files that are not there) is
\* logged and the loop goes on
RemoveZips(ku_list) ==
    \E failing \in
          {f \in SUBSET ZipsToRemove(ku_list, staging) :
              ZipsToRemove(ku_list, staging) \ staging \subseteq f} :
        /\ staging' = staging \ (ZipsToRemove(ku_list, staging) \ failing)
        /\ warnings' = warnings \cup {Warning("unlink", z) : z \in failing}

\* kp.remove_zip_files()
remove_zip_files ==
    /\ pc = "remove_zip_files"
    /\ RemoveZips(NoList)
    /\ Return("remove_zip_files")
    /\ UNCHANGED << catalog, caller, tree, everStaged, everWritten, todo >>
    /\ UNCHANGED << gdbVars, unitVars >>

\* kp.remove_unpacked_files(): shutil.rmtree(unpacked_path); an error (here:
\* before anything was removed) is logged
remove_unpacked_files ==
    /\ pc = "remove_unpacked_files"
    /\ \/ /\ << >> \in DOMAIN tree
          /\ tree' = NoTree
          /\ warnings' = warnings
       \/ /\ tree' = tree
          /\ warnings' = warnings \cup {Warning("rmtree", "unpacked")}
    /\ Return("remove_unpacked_files")
    /\ UNCHANGED << catalog, caller, staging, everStaged, everWritten, todo >>
    /\ UNCHANGED << gdbVars, unitVars >>

\* ---------------------------------------------------------- specification
Next ==
    \/ KuDownloader
    \/ download_all_kus
    \/ KUParser
    \/ extract_zip_files
    \/ ExtractOne
    \/ upload_data_to_gdb
    \/ ProcessSingleKu
    \/ remove_zip_files
    \/ remove_unpacked_files

Spec == Init /\ [][Next]_vars

\* the program is one thread that runs on until it returns
FairSpec == Spec /\ WF_vars(Next)

\* ----------------------------------------- the methods of KUParser, called
\* by a caller other than main.py: extract_zip_files() twice on the same
\* download_path, then remove_zip_files with or without a ku_list.  As in the
\* driver, pc = NextCall(m) says that m has returned.
ApiInit ==
    /\ pc = "extract_zip_files"
    /\ hardError = "none"
    /\ called = SubSeq(DriverCalls, 1, 4)
    /\ returned = {DriverCalls[i] : i \in 1..3}
    /\ catalog \in Catalogs
    /\ staging = Units
    /\ tree = NoTree
    /\ todo = {}
    /\ gdbExists = FALSE
    /\ kuExists = FALSE
    /\ ku = << >>
    /\ transient = NoTransient
    /\ env = FreshEnv
    /\ warnings = {}
    /\ submitted = {}
    /\ succeeded = << >>
    /\ everStaged = Units
    /\ everWritten = {}
    /\ caller = NoCaller

\* one turn of the loop of extract_zip_files; in the second call every
\* archive fails the way it failed in the first
ExtractOneOfCall ==
    /\ pc = "extract_loop"
    /\ \E zip_file \in {First(todo)} :
          \E writesBad \in (IF caller.rerun THEN {caller.outcome[zip_file]}
                            ELSE BOOLEAN) :
              /\ ExtractTurn(zip_file, writesBad)
              /\ caller' = IF caller.rerun THEN caller
                           ELSE [caller EXCEPT
                                    !.outcome = (zip_file :> writesBad) @@ @]

\* the caller calls extract_zip_files() a second time
ExtractAgain ==
    /\ pc = NextCall("extract_zip_files")
    /\ ~caller.rerun
    /\ pc' = "extract_zip_files"
    /\ caller' = [caller EXCEPT !.rerun = TRUE, !.tree = tree]
    /\ UNCHANGED << hardError, called, returned, catalog, todo, warnings >>
    /\ UNCHANGED << fsVars, gdbVars, unitVars >>

\* the lists a caller may pass: any archives of download_path, and one that
\* is not there
KuLists ==
    {NoList} \cup
    {[given |-> TRUE, list |-> l] :
        l \in SUBSET (Units \cup {UnitNames[NumUnits + 1]})}

\* the caller calls remove_zip_files(ku_list)
RemoveZipFilesOfList ==
    /\ pc = NextCall("extract_zip_files")
    /\ caller.rerun
    /\ \E ku_list \in KuLists :
          /\ RemoveZips(ku_list)
          /\ caller' = [caller EXCEPT !.ku_list = ku_list]
    /\ pc' = "done"
    /\ called' = Append(called, "remove_zip_files")
    /\ returned' = returned \cup {"remove_zip_files"}
    /\ UNCHANGED << hardError, catalog, tree, everStaged, everWritten, todo >>
    /\ UNCHANGED << gdbVars, unitVars >>

ApiNext ==
    \/ extract_zip_files
    \/ ExtractOneOfCall
    \/ ExtractAgain
    \/ RemoveZipFilesOfList

ApiSpec == ApiInit /\ [][ApiNext]_vars

\* ------------------------------------------------------------- properties
StageErrors == {"config", "download", "setup"}

\* the state of the Pipeline Driver a program position belongs to
Stage(at) ==
    CASE at \in {"KuDownloader", "download_all_kus"} -> "Fetching"
      [] at \in {"KUParser", "extract_zip_files", "extract_loop"} -> "Extracting"
      [] at \in {"upload_data_to_gdb", "upload_loop"} -> "Accumulating"
      [] at \in {"remove_zip_files", "remove_unpacked_files"} -> "CleaningUp"
      [] at = "done" -> "Done"
      [] at = "failed" -> "Failed"

StageOrder == << "Fetching", "Extracting", "Accumulating", "CleaningUp", "Done" >>

StageRank(stage) == CHOOSE i \in 1..Len(StageOrder) : StageOrder[i] = stage

Logged(what, item) == Warning(what, item) \in warnings

\* the features the join of unit u's two layers yields
FeaturesOf(u) == {[ku |-> u, n |-> i] : i \in 1..FeatPerUnit}

FeatureSeq(u) == [i \in 1..FeatPerUnit |-> [ku |-> u, n |-> i]]

\* the files under unpacked/ that came out of the archive of unit u
FilesOf(u) == {p \in DOMAIN tree : tree[p].kind = "file" /\ tree[p].src = u}

\* the entries of u's archive whose base name is in the manifest
ListedEntries(u) ==
    {e \in Range(Archive(u, catalog[u]).infolist) :
        BaseName(e.filename) \in Range(to_extract)}

\* extract_zip_file has returned for the archive of u without raising, and
\* nothing has run since but extract_zip_files
ExtractedOk(u) ==
    /\ u \in staging
    /\ ~Logged("extract", u)
    /\ \/ pc = "extract_loop" /\ u \notin todo
       \/ pc = NextCall("extract_zip_files")

\* the archive of u cannot be opened, or an entry of it cannot be read
Corrupt(u) ==
    \/ ~Archive(u, catalog[u]).openable
    \/ \E e \in Range(Archive(u, catalog[u]).infolist) : e.bad

\* C1: at the end of a run the store KU holds the union of the joined
\* features of exactly the units whose process_single_ku succeeded, and
\* nothing else.
C1_ExactUnion ==
    pc = "done" =>
        Range(ku) = UNION {FeaturesOf(u) : u \in Range(succeeded)}

\* C2: the stages run in the order Fetching, Extracting, Accumulating,
\* CleaningUp, Done and none is entered twice; nothing is extracted before
\* download_all_kus has returned, no unit is joined before extract_zip_files
\* has returned, nothing is removed before upload_data_to_gdb has returned.
C2_StagesInOrder ==
    /\ \A i, j \in 1..Len(called) :
          i < j => /\ called[i] # called[j]
                   /\ StageRank(Stage(called[i])) <= StageRank(Stage(called[j]))
    /\ pc # "failed" =>
          StageRank(Stage(pc)) >= StageRank(Stage(called[Len(called)]))
    /\ (everWritten # {} \/ \E u \in Units : Logged("extract", u))
          => "download_all_kus" \in returned
    /\ submitted # {} => "extract_zip_files" \in returned
    /\ ( \/ staging # everStaged
         \/ ~(everWritten \subseteq DOMAIN tree)
         \/ \E w \in warnings : w.what \in {"unlink", "rmtree"} )
          => "upload_data_to_gdb" \in returned

C2_Witness ==
    /\ pc = "done"
    /\ Len(succeeded) = NumUnits
    /\ staging = {}
    /\ tree = NoTree

\* C3: a failure of one archive in Extracting or of one unit in Accumulating
\* never takes the driver to Failed (only a stage error does), and the run
\* goes on through CleaningUp to Done.
C3_ItemFailuresAbsorbed ==
    /\ [](pc = "failed" => hardError \in StageErrors)
    /\ [](pc = "done" =>
            {"remove_zip_files", "remove_unpacked_files"} \subseteq returned)
    /\ <>(pc = "done" \/ hardError \in StageErrors)

C3_Witness ==
    /\ pc = "done"
    /\ \E u \in Units : Logged("extract", u)
    /\ \E u \in Units : Logged("process", u)
    /\ hardError = "none"

\* C4: with the archive of A corrupt and all other archives sound, the other
\* units are extracted and accumulated and the final store holds their
\* features and none of A.
C4_Isolation ==
    pc = "done" =>
        \A a \in Units :
            ( /\ Corrupt(a)
              /\ \A b \in Units \ {a} :
                    catalog[b] = "sound" /\ ~Logged("process", b) )
            => /\ \A b \in Units \ {a} :
                     /\ ~Logged("extract", b)
                     /\ b \in submitted
                     /\ FeaturesOf(b) \subseteq Range(ku)
               /\ FeaturesOf(a) \cap Range(ku) = {}

\* C5: when an exception leaves a stage the driver is in Failed, no later
\* statement of the driver has run (no cleanup), and every archive and every
\* unpacked path there was is still there.
C5_HaltPreserves ==
    hardError # "none" =>
        /\ pc = "failed"
        /\ hardError \in StageErrors
        /\ Len(called) = Cardinality(returned) + 1
        /\ "remove_zip_files" \notin Range(called)
        /\ "remove_unpacked_files" \notin Range(called)
        /\ staging = everStaged
        /\ everWritten \subseteq DOMAIN tree

C5_Witness ==
    /\ pc = "failed"
    /\ hardError = "setup"
    /\ staging = Units
    /\ \E u \in Units : FilesOf(u) # {}

\* C6: when the geodatabase exists and holds a KU of an earlier run, the
\* workspace setup deletes it: once the setup has run the store holds no
\* feature of the earlier run, and no KU exists when the first unit is
\* processed.
C6_StaleStoreDeleted ==
    /\ ("upload_data_to_gdb" \in Range(called) /\ pc # "upload_data_to_gdb")
          => \A f \in Range(ku) : f.ku # "old"
    /\ (pc = "upload_loop" /\ submitted = {}) => ~kuExists

\* C7: a unit whose archive could not be opened or extracted is never
\* submitted to process_single_ku.
C7_FailedArchiveNotSubmitted ==
    \A u \in Units : Logged("extract", u) => u \notin submitted

\* C8 (as claimed): after extract_zip_file returned without raising, the
\* unit's folder holds exactly the ten manifest files.
C8_AllTen ==
    \A u \in Units :
        ExtractedOk(u) =>
            FilesOf(u) = {<<u, to_extract[i]>> : i \in 1..Len(to_extract)}

\* C8 (amended): after extract_zip_file returned without raising, the files
\* written for the archive are exactly its entries whose base name is in the
\* manifest, each at its own file name: never a file outside the manifest,
\* and all ten only when the archive holds all ten.
C8_ExactlyListedEntries ==
    \A u \in Units :
        ExtractedOk(u) =>
            /\ FilesOf(u) = {e.filename : e \in ListedEntries(u)}
            /\ \A p \in FilesOf(u) : BaseName(p) \in Range(to_extract)

C8_Witness ==
    \E u \in Units :
        /\ ExtractedOk(u)
        /\ Cardinality(FilesOf(u)) = Len(to_extract) - 1

\* C9 (as claimed): at Done the staging directory holds no archive and no
\* unpacked/ tree.
C9_NothingLeft ==
    pc = "done" => (staging = {} /\ tree = NoTree)

\* C9 (amended): at Done the only archives left are those whose unlink
\* raised and was logged, and unpacked/ is left only if rmtree raised and was
\* logged; failed units are removed like the others.
C9_LeftOnlyWhereLogged ==
    pc = "done" =>
        /\ staging = {u \in Units : Logged("unlink", u)}
        /\ tree # NoTree => Logged("rmtree", "unpacked")

C9_Witness ==
    /\ pc = "done"
    /\ staging = {}
    /\ tree = NoTree
    /\ \E u \in Units : Logged("extract", u)
    /\ \E u \in Units : Logged("process", u)

C11_UnderUnitIdentifier ==
    /\ \A u \in Units :
          ExtractedOk(u) =>
              /\ FilesOf(u) # {}
              /\ \A p \in FilesOf(u) : Len(p) = 2 /\ p[1] = u
    /\ submitted \subseteq everStaged

\* C12: when download_all_kus fails, its error (wrapped) is what the driver
\* reports, the run is in Failed with download_all_kus the last call made,
\* and nothing was extracted and no unit submitted to the join.
C12_FetchFailureHalts ==
    hardError = "download" =>
        /\ pc = "failed"
        /\ called[Len(called)] = "download_all_kus"
        /\ "download_all_kus" \notin returned
        /\ everWritten = {} /\ tree = NoTree
        /\ \A w \in warnings : w.what # "extract"
        /\ submitted = {} /\ succeeded = << >>
        /\ ~transient.exists

C12_Witness ==
    /\ hardError = "download"
    /\ pc = "failed"
    /\ staging # {} /\ staging # Units
    /\ \E u \in staging : catalog[u] # "sound"

\* C13: a second extract_zip_files() on the same archives, each failing as
\* it did the first time, leaves unpacked/ as the first call left it: after
\* the second call, and after every archive of it.
C13_ExtractTwiceSame ==
    caller.rerun => tree = caller.tree

C13_Witness ==
    /\ caller.rerun
    /\ pc = NextCall("extract_zip_files")
    /\ \E u \in Units :
          /\ Logged("extract", u)
          /\ \E p \in FilesOf(u) : ~tree[p].good
    /\ \E u \in Units : ExtractedOk(u) /\ Cardinality(FilesOf(u)) = Len(to_extract)

\* C14: remove_zip_files removes nothing but the archives of ku_list (all
\* archives when no list is given), and of those every one whose own unlink
\* did not fail: an archive targeted and still there has its warning.
C14_OnlyTargetsRemoved ==
    "remove_zip_files" \in returned =>
        LET targets == IF caller.ku_list.given THEN caller.ku_list.list
                       ELSE everStaged
        IN  /\ (everStaged \ staging) \subseteq targets
            /\ \A z \in targets \cap staging : Logged("unlink", z)

C14_Witness ==
    /\ "remove_zip_files" \in returned
    /\ caller.ku_list.given
    /\ \E a, b, c \in Units :
          /\ {a, b} \subseteq caller.ku_list.list /\ c \notin caller.ku_list.list
          /\ Position(a) < Position(b)
          /\ a \in staging /\ Logged("unlink", a)
          /\ b \notin staging
          /\ c \in staging

\* C15: every run ends, and stays, in Done or Failed, whatever archives are
\* served and whatever fails; an error that halts a stage is caught by the
\* driver and reported (hardError), and the driver is in Failed exactly when
\* it has reported one.
C15_AlwaysTerminates ==
    /\ <>[](pc \in {"done", "failed"})
    /\ []((pc = "failed") <=> (hardError # "none"))
    /\ [](pc \in {"done", "failed"} \cup Range(DriverCalls)
                 \cup {"extract_loop", "upload_loop"})

C15_Witness ==
    /\ pc = "failed"
    /\ hardError = "config"
    /\ called[Len(called)] = "KUParser"
    /\ staging = Units
    /\ \E u \in Units : catalog[u] = "truncated"

\* C16: once download_all_kus has returned, every archive the run placed in
\* download_path is the archive of a unit that download_list names.
C16_OnlyListedFetched ==
    "download_all_kus" \in returned => everStaged \subseteq download_list

\* C17: once process_single_ku has returned or raised for a unit,
\* in_memory/spatial_join does not exist: between the units and after the
\* last one the transient is gone.
C17_TransientDiscarded ==
    submitted # {} => ~transient.exists

\* C18: from the first call of process_single_ku on, the environment has
\* the geodatabase as workspace, the spatial reference, the XY domain, the
\* overwrite policy and the parallel processing factor 100%.
C18_SetUpBeforeFirstUnit ==
    (pc = "upload_loop" \/ submitted # {}) =>
        /\ env.workspace = "gdb"
        /\ env.outputCoordinateSystem = sr
        /\ env.XYDomain = "-916406 -1234597 -419902 -738093"
        /\ env.overwriteOutput
        /\ env.parallelProcessingFactor = "100%"

\* C19: the features of a unit whose processing failed are never in KU, and
\* a turn of the upload loop that starts with a transient left behind either
\* leaves KU as it is or adds the joined features of the unit of this turn.
C19_NoStaleFeatures ==
    /\ [](\A u \in Units :
            Logged("process", u) => FeaturesOf(u) \cap Range(ku) = {})
    /\ [][ (pc = "upload_loop" /\ transient.exists) =>
             \/ ku' = ku
             \/ /\ Joinable(tree, First(todo))
                /\ ku' = ku \o SpatialJoin(tree, First(todo)) ]_vars

\* the transient of a failed unit is there when a later unit that can be
\* joined is processed, KU holding the features of an earlier one
C19_Witness ==
    /\ pc = "upload_loop"
    /\ transient.exists
    /\ \E u \in Units :
          /\ Logged("process", u)
          /\ transient.feats = FeatureSeq(u)
    /\ Joinable(tree, First(todo))
    /\ Len(ku) = FeatPerUnit

====
